---------------------------- MODULE Spec2Model ----------------------------
(***************************************************************************)
(* Model of src/main.py: the changelog pipeline (ChangelogGenerator).      *)
(*                                                                         *)
(* Three stages, each a method: extract_jira_issues, generate_changelog,   *)
(* create_document; run_full_process chains them in memory, main() runs    *)
(* one of them or the chain.  Two CSV checkpoint files sit between the     *)
(* stages.                                                                 *)
(*                                                                         *)
(* Values.  Every cell of a DataFrame is a string, or one of the two       *)
(* nulls Python/pandas can put there: None (an absent Jira description)    *)
(* and float NaN (what pd.read_csv yields for a missing value).  Both are  *)
(* modelled as reserved strings that no ticket text equals.  The text the  *)
(* generation service returns is a sequence of characters, so that         *)
(* str.strip() is computed character by character.                         *)
(*                                                                         *)
(* pandas semantics used (pandas 2.x, the versions that coexist with the   *)
(* openai>=1.0 client the code calls):                                     *)
(*  - DataFrame([]) has no columns; to_csv of it writes no header and      *)
(*    read_csv of that file raises EmptyDataError;                         *)
(*  - to_csv writes None/NaN as the empty field;                           *)
(*  - read_csv turns the empty field and the default NA literals, "N/A"    *)
(*    among them, into NaN (numeric inference is not modelled: no ticket   *)
(*    text of the model is numeric);                                       *)
(*  - Series.unique keeps NaN as a value, and == against NaN is False;     *)
(*  - df.apply(f, axis=1) on a frame without rows and columns returns a    *)
(*    copy of the frame, and assigning a column-less frame to one column   *)
(*    raises ValueError.                                                   *)
(***************************************************************************)
EXTENDS Integers, Sequences, FiniteSets, TLC

VARIABLES
    tracker,    \* what jira.search_issues returns: a sequence of issues
    service,    \* what the chat-completion call does for each ticket key
    mode,       \* the stage switch main() was started with
    pc,         \* position of the running process
    df,         \* the DataFrame the running stage holds
    notes,      \* results of gerar_changelog for rows 1..Len(notes) (df.apply)
    requests,   \* prompts sent to the generation service by this process
    snapshot,   \* file issues_para_changelog.csv
    revisao,    \* file changelog_para_revisao.csv
    docx,       \* file Changelog_Release_<version>_<date>.docx
    err,        \* exception that ended the process, "" when none
    trace,      \* history: stage events of the running process, in order
    pre,        \* history: the three files as they were when the process started
    revisaoBy   \* history: mode of the process that last wrote revisao

vars == <<tracker, service, mode, pc, df, notes, requests, snapshot, revisao,
          docx, err, trace, pre, revisaoBy>>

----------------------------------------------------------------------------
(* Bounds of the model *)

MaxIssues == 2      \* tickets returned by the tracker, pipeline runs
MaxRecords == 3     \* tickets returned by the tracker, document assembly runs
MaxLen == 4         \* characters of a text returned by the generation service

----------------------------------------------------------------------------
(* Values *)

NONE == "<None>"
NAN == "<nan>"

IsNull(v) == v \in {NONE, NAN}

\* pandas' default na_values of read_csv
NaValues ==
    {"", "#N/A", "#N/A N/A", "#NA", "-1.#IND", "-1.#QNAN", "-NaN", "-nan",
     "1.#IND", "1.#QNAN", "<NA>", "N/A", "NA", "NULL", "NaN", "None", "n/a",
     "nan", "null"}

\* f"{v}" of a cell
Fmt(v) == IF v = NAN THEN "nan" ELSE IF v = NONE THEN "None" ELSE v

KeyNames == <<"X-1", "X-2", "X-3", "X-4", "X-5", "X-6">>
JiraUrl == "https://jira"
ReleaseVersion == "4.1"
Today == "03/11/2026"
TodayCompact == "20261103"

Whitespace == {" ", "\n"}
Alphabet == {"a"} \cup Whitespace

RECURSIVE Join(_)
Join(s) == IF s = <<>> THEN "" ELSE Head(s) \o Join(Tail(s))

RECURSIVE LStrip(_)
LStrip(s) ==
    IF s # <<>> /\ Head(s) \in Whitespace THEN LStrip(Tail(s)) ELSE s

RECURSIVE RStrip(_)
RStrip(s) ==
    IF s # <<>> /\ s[Len(s)] \in Whitespace
    THEN RStrip(SubSeq(s, 1, Len(s) - 1))
    ELSE s

\* str.strip()
Strip(s) == RStrip(LStrip(s))


----------------------------------------------------------------------------
(* DataFrames and the CSV checkpoint files *)

Columns == <<"key", "link", "tipo", "modulo", "sumario", "descricao">>
NoteColumn == "changelog_sugerido"

NoDf == [held |-> FALSE]
NoFile == [exists |-> FALSE]

\* pd.DataFrame(changelog_data): no columns when the list is empty
DataFrame(rows) ==
    [held |-> TRUE, cols |-> IF rows = <<>> THEN <<>> ELSE Columns, rows |-> rows]

\* one field written by to_csv: nulls become the empty field (na_rep = "")
CsvField(v) == IF IsNull(v) THEN "" ELSE v

\* one field parsed by read_csv: the NA literals become NaN
ParseField(s) == IF s \in NaValues THEN NAN ELSE s

\* df.to_csv(path, index=False): the file content
ToCsv(f) ==
    [exists |-> TRUE,
     cols |-> f.cols,
     rows |-> [i \in 1..Len(f.rows) |->
                 [c \in DOMAIN f.rows[i] |-> CsvField(f.rows[i][c])]]]

\* pd.read_csv(path) succeeds: the file is there and has a header
Readable(file) == file.exists /\ file.cols # <<>>

\* pd.read_csv(path) of a readable file
ReadCsv(file) ==
    [held |-> TRUE,
     cols |-> file.cols,
     rows |-> [i \in 1..Len(file.rows) |->
                 [c \in DOMAIN file.rows[i] |-> ParseField(file.rows[i][c])]]]

\* df['changelog_sugerido'] = <Series>: the column is added, or replaced
WithNotes(f, ns) ==
    [held |-> TRUE,
     cols |-> IF \E k \in 1..Len(f.cols) : f.cols[k] = NoteColumn
              THEN f.cols ELSE Append(f.cols, NoteColumn),
     rows |-> [i \in 1..Len(f.rows) |->
                 [c \in DOMAIN f.rows[i] \cup {NoteColumn} |->
                    IF c = NoteColumn THEN ns[i] ELSE f.rows[i][c]]]]

----------------------------------------------------------------------------
(* Extraction: the body of extract_jira_issues' loop *)

IssueData(issue) ==
    [key |-> issue.key,
     link |-> JiraUrl \o "/browse/" \o issue.key,
     tipo |-> issue.issuetype,
     modulo |-> IF issue.components # <<>> THEN issue.components[1] ELSE "N/A",
     sumario |-> issue.summary,
     descricao |-> issue.description]

Extract(issues) == DataFrame([i \in 1..Len(issues) |-> IssueData(issues[i])])

----------------------------------------------------------------------------
(* Narrative generation: the callback gerar_changelog *)

\* the f-string prompt of a row
Prompt(row) ==
    "Tipo: " \o Fmt(row.tipo) \o " Modulo: " \o Fmt(row.modulo)
    \o " Sumario: " \o Fmt(row.sumario) \o " Descricao: " \o Fmt(row.descricao)

\* A reply of the service: the call raises, or returns choices[0].message.content
Raises == [raises |-> TRUE, content |-> <<>>]
Returns(text) == [raises |-> FALSE, content |-> text]

\* gerar_changelog with an except branch that returns the error text
gerar_changelog_error_text(row, reply) ==
    IF reply.raises THEN "erro" ELSE Join(Strip(reply.content))

\* try: return content.strip()  except Exception: return ""
gerar_changelog(row, reply) ==
    IF reply.raises THEN "" ELSE Join(Strip(reply.content))

----------------------------------------------------------------------------
(* Document assembly: the paragraphs create_document adds *)

Run(text, italic) == [text |-> text, italic |-> italic]

Heading(text, level) ==
    [style |-> IF level = 0 THEN "Title"
               ELSE IF level = 1 THEN "Heading 1" ELSE "Heading 2",
     runs |-> <<Run(text, FALSE)>>]

Bullet(item) ==
    [style |-> "List Bullet",
     runs |-> <<Run(Fmt(item[NoteColumn]) \o " ", FALSE),
                Run("(" \o Fmt(item.key) \o ")", TRUE)>>]

Column(f, c) == [i \in 1..Len(f.rows) |-> f.rows[i][c]]

\* Series.unique(): distinct values in first-seen order
RECURSIVE Unique(_)
Unique(s) ==
    IF s = <<>> THEN <<>>
    ELSE LET u == Unique(SubSeq(s, 1, Len(s) - 1))
             x == s[Len(s)]
         IN  IF \E k \in 1..Len(u) : u[k] = x THEN u ELSE Append(u, x)

\* elementwise ==: never true of a null
PdEq(a, b) == ~IsNull(a) /\ ~IsNull(b) /\ a = b

Matches(row, tipo, modulo) == PdEq(row.tipo, tipo) /\ PdEq(row.modulo, modulo)

\* df[(df['tipo'] == tipo) & (df['modulo'] == modulo)]
Itens(f, tipo, modulo) == SelectSeq(f.rows, LAMBDA r : Matches(r, tipo, modulo))

Bullets(itens) == [i \in 1..Len(itens) |-> Bullet(itens[i])]

\* for modulo in modulos: ...
RECURSIVE ModuloSections(_, _, _)
ModuloSections(f, tipo, modulos) ==
    IF modulos = <<>> THEN <<>>
    ELSE LET itens == Itens(f, tipo, Head(modulos))
         IN  (IF Len(itens) > 0
              THEN <<Heading(Fmt(Head(modulos)), 2)>> \o Bullets(itens)
              ELSE <<>>)
             \o ModuloSections(f, tipo, Tail(modulos))

\* the loop over tipos with the modules of each type taken from its own rows
RECURSIVE TipoSectionsPerTipo(_, _, _)
TipoSectionsPerTipo(f, tipos, modulos) ==
    IF tipos = <<>> THEN <<>>
    ELSE LET own == SelectSeq(f.rows, LAMBDA r : PdEq(r.tipo, Head(tipos)))
         IN  <<Heading(Fmt(Head(tipos)), 1)>>
             \o ModuloSections(f, Head(tipos),
                               Unique([i \in 1..Len(own) |-> own[i].modulo]))
             \o TipoSectionsPerTipo(f, Tail(tipos), modulos)

\* for tipo in tipos: ...
RECURSIVE TipoSections(_, _, _)
TipoSections(f, tipos, modulos) ==
    IF tipos = <<>> THEN <<>>
    ELSE <<Heading(Fmt(Head(tipos)), 1)>>
         \o ModuloSections(f, Head(tipos), modulos)
         \o TipoSections(f, Tail(tipos), modulos)

DocTitle == "Changelog - Segura " \o ReleaseVersion \o " - " \o Today
DocName == "Changelog_Release_" \o ReleaseVersion \o "_" \o TodayCompact \o ".docx"

\* the paragraphs of the document, in order
DocBody(f) ==
    <<Heading(DocTitle, 0)>>
    \o TipoSections(f, Unique(Column(f, "tipo")), Unique(Column(f, "modulo")))

----------------------------------------------------------------------------
(* Inputs: tracker results and service replies *)

Issue(key, issuetype, components, description) ==
    [key |-> key, issuetype |-> issuetype, components |-> components,
     summary |-> "s", description |-> description]

\* the result lists of n tickets with unique keys, fields drawn from the sets
ResultLists(n, types, componentLists, descriptions) ==
    LET shapes == types \X componentLists \X descriptions
    IN  {[i \in 1..n |-> Issue(KeyNames[i], sh[i][1], sh[i][2], sh[i][3])] :
            sh \in [1..n -> shapes]}

KeysOf(issues) == {issues[i].key : i \in 1..Len(issues)}

RECURSIVE TextsOfLen(_)
TextsOfLen(n) ==
    IF n = 0 THEN {<<>>}
    ELSE {Append(t, c) : t \in TextsOfLen(n - 1), c \in Alphabet}

\* every text of at most n characters
Texts(n) == UNION {TextsOfLen(k) : k \in 0..n}

\* Process state before main() is started in a fresh working directory
Fresh ==
    /\ mode = "none"
    /\ pc = "idle"
    /\ df = NoDf
    /\ notes = <<>>
    /\ requests = <<>>
    /\ snapshot = NoFile
    /\ revisao = NoFile
    /\ docx = NoFile
    /\ err = ""
    /\ trace = <<>>
    /\ pre = [snapshot |-> NoFile, revisao |-> NoFile, docx |-> NoFile]
    /\ revisaoBy = "none"

\* Pipeline runs: up to MaxIssues tickets, with or without components; the
\* service raises, returns a sentence with surrounding blanks, or returns blanks.
Init ==
    /\ \E n \in 0..MaxIssues :
          tracker \in ResultLists(n, {"Bug", "Story"},
                                  {<<>>, <<"Auth", "Core">>}, {NONE})
    /\ service \in [KeysOf(tracker) ->
                       {Raises, Returns(<<" ", "a", "\n">>), Returns(<<" ">>)}]
    /\ Fresh

\* Document assembly runs: up to MaxRecords tickets over two types and three
\* module values; the service returns a sentence.
InitDoc ==
    /\ \E n \in 0..MaxRecords :
          tracker \in ResultLists(n, {"Bug", "Story"},
                                  {<<>>, <<"Auth">>, <<"Core", "Auth">>}, {NONE})
    /\ service \in [KeysOf(tracker) -> {Returns(<<"a">>)}]
    /\ Fresh

\* Generation runs: at most one ticket; the service raises or returns any text
\* of at most MaxLen characters.
InitNote ==
    /\ \E n \in 0..1 :
          tracker \in ResultLists(n, {"Bug"}, {<<>>, <<"Auth">>}, {NONE, "d"})
    /\ service \in [KeysOf(tracker) ->
                       {Raises} \cup {Returns(t) : t \in Texts(MaxLen)}]
    /\ Fresh

----------------------------------------------------------------------------
(* Operations *)

Files == [snapshot |-> snapshot, revisao |-> revisao, docx |-> docx]

Ended == pc \in {"idle", "done", "failed"}

\* main(): a new process, started with one of the stage switches or none
Main(m) ==
    /\ Ended
    /\ mode' = m
    /\ pc' = "start"
    /\ df' = NoDf
    /\ notes' = <<>>
    /\ requests' = <<>>
    /\ err' = ""
    /\ trace' = <<>>
    /\ pre' = Files
    /\ UNCHANGED <<tracker, service, snapshot, revisao, docx, revisaoBy>>

Raise(exception) ==
    /\ err' = exception
    /\ pc' = "failed"

\* extract_jira_issues: the query is answered
ExtractIssues ==
    /\ mode \in {"full", "extract"}
    /\ pc = "start"
    /\ df' = Extract(tracker)
    /\ snapshot' = ToCsv(df')
    /\ trace' = trace \o <<"extract", "snapshot">>
    /\ pc' = IF mode = "extract" THEN "done" ELSE "gen"
    /\ UNCHANGED <<tracker, service, mode, notes, requests, revisao, docx, err,
                   pre, revisaoBy>>

\* extract_jira_issues with the error of the query swallowed: the run goes on
ExtractRejectedContinues ==
    /\ mode \in {"full", "extract"}
    /\ pc = "start"
    /\ df' = DataFrame(<<>>)
    /\ pc' = IF mode = "extract" THEN "done" ELSE "gen"
    /\ trace' = Append(trace, "extract")
    /\ UNCHANGED <<tracker, service, mode, notes, requests, snapshot,
                   revisao, docx, err, pre, revisaoBy>>

\* extract_jira_issues with the snapshot opened for writing before the query
ExtractRejectedTruncates ==
    /\ mode \in {"full", "extract"}
    /\ pc = "start"
    /\ snapshot' = ToCsv(DataFrame(<<>>))
    /\ Raise("JIRAError")
    /\ trace' = Append(trace, "extract")
    /\ UNCHANGED <<tracker, service, mode, df, notes, requests,
                   revisao, docx, pre, revisaoBy>>

\* extract_jira_issues: jira.search_issues raises
ExtractRejected ==
    /\ mode \in {"full", "extract"}
    /\ pc = "start"
    /\ Raise("JIRAError")
    /\ trace' = Append(trace, "extract")
    /\ UNCHANGED <<tracker, service, mode, df, notes, requests, snapshot,
                   revisao, docx, pre, revisaoBy>>

GenerateCalled ==
    \/ mode = "full" /\ pc = "gen"
    \/ mode = "generate" /\ pc = "start"

\* generate_changelog, up to df.apply: df is given, or read from the snapshot
GenerateBegin ==
    /\ GenerateCalled
    /\ mode = "generate" => Readable(snapshot)
    /\ df' = IF mode = "generate" THEN ReadCsv(snapshot) ELSE df
    /\ pc' = "apply"
    /\ trace' = Append(trace, "generate")
    /\ UNCHANGED <<tracker, service, mode, notes, requests, snapshot, revisao,
                   docx, err, pre, revisaoBy>>

\* generate_changelog with an unreadable snapshot taken for an empty one
GenerateNoSnapshotEmptyFrame ==
    /\ GenerateCalled
    /\ mode = "generate"
    /\ ~Readable(snapshot)
    /\ df' = DataFrame(<<>>)
    /\ pc' = "apply"
    /\ trace' = Append(trace, "generate")
    /\ UNCHANGED <<tracker, service, mode, notes, requests, snapshot,
                   revisao, docx, err, pre, revisaoBy>>

\* generate_changelog: df is None and the snapshot cannot be read
GenerateNoSnapshot ==
    /\ GenerateCalled
    /\ mode = "generate"
    /\ ~Readable(snapshot)
    /\ Raise("FileNotFoundError")
    /\ trace' = Append(trace, "generate")
    /\ UNCHANGED <<tracker, service, mode, df, notes, requests, snapshot,
                   revisao, docx, pre, revisaoBy>>

\* df.apply calls gerar_changelog on the next row
GerarChangelog ==
    /\ pc = "apply"
    /\ Len(notes) < Len(df.rows)
    /\ LET row == df.rows[Len(notes) + 1]
       IN  /\ requests' = Append(requests, Prompt(row))
           /\ notes' = Append(notes, gerar_changelog(row, service[row.key]))
    /\ UNCHANGED <<tracker, service, mode, pc, df, snapshot, revisao, docx,
                   err, trace, pre, revisaoBy>>

\* generate_changelog after df.apply: the column is set and the file written
GenerateEnd ==
    /\ pc = "apply"
    /\ df.cols # <<>>
    /\ Len(notes) = Len(df.rows)
    /\ df' = WithNotes(df, notes)
    /\ revisao' = ToCsv(df')
    /\ revisaoBy' = mode
    /\ trace' = Append(trace, "revisao")
    /\ pc' = IF mode = "generate" THEN "done" ELSE "doc"
    /\ UNCHANGED <<tracker, service, mode, notes, requests, snapshot, docx,
                   err, pre>>

\* generate_changelog on DataFrame([]): df.apply returns a frame without
\* columns and the column assignment raises
GenerateEmptyFrame ==
    /\ pc = "apply"
    /\ df.cols = <<>>
    /\ Raise("ValueError")
    /\ UNCHANGED <<tracker, service, mode, df, notes, requests, snapshot,
                   revisao, docx, trace, pre, revisaoBy>>

DocumentCalled ==
    \/ mode = "full" /\ pc = "doc"
    \/ mode = "document" /\ pc = "start"

\* the frame create_document works on: df, or the post-generation file
DocumentFrame == IF mode = "document" THEN ReadCsv(revisao) ELSE df

\* create_document: the document is built and saved
CreateDocument ==
    /\ DocumentCalled
    /\ mode = "document" => Readable(revisao)
    /\ df' = DocumentFrame
    /\ docx' = [exists |-> TRUE, name |-> DocName, body |-> DocBody(df')]
    /\ trace' = trace \o <<"document", "docx">>
    /\ pc' = "done"
    /\ UNCHANGED <<tracker, service, mode, notes, requests, snapshot, revisao,
                   err, pre, revisaoBy>>

\* create_document: doc.save raises
CreateDocumentSaveFails ==
    /\ DocumentCalled
    /\ mode = "document" => Readable(revisao)
    /\ df' = DocumentFrame
    /\ Raise("OSError")
    /\ trace' = Append(trace, "document")
    /\ UNCHANGED <<tracker, service, mode, notes, requests, snapshot, revisao,
                   docx, pre, revisaoBy>>

\* create_document: df is None and the post-generation file cannot be read
DocumentNoDataset ==
    /\ DocumentCalled
    /\ mode = "document"
    /\ ~Readable(revisao)
    /\ Raise("FileNotFoundError")
    /\ trace' = Append(trace, "document")
    /\ UNCHANGED <<tracker, service, mode, df, notes, requests, snapshot,
                   revisao, docx, pre, revisaoBy>>

\* a step of one of the stages
StageStep ==
    \/ ExtractIssues
    \/ ExtractRejected
    \/ GenerateBegin
    \/ GenerateNoSnapshot
    \/ GerarChangelog
    \/ GenerateEnd
    \/ GenerateEmptyFrame
    \/ CreateDocument
    \/ CreateDocumentSaveFails
    \/ DocumentNoDataset

Next ==
    \/ \E m \in {"full", "extract", "generate", "document"} : Main(m)
    \/ StageStep

Spec == Init /\ [][Next]_vars
SpecDoc == InitDoc /\ [][Next]_vars
SpecNote == InitNote /\ [][Next]_vars

----------------------------------------------------------------------------
(* Vocabulary of the properties *)

InTrace(e) == \E k \in 1..Len(trace) : trace[k] = e

IsPrefix(s, t) == Len(s) <= Len(t) /\ \A k \in 1..Len(s) : s[k] = t[k]

N == Len(tracker)

Reply(i) == service[tracker[i].key]

\* records whose generation call raises
FailedRecords == {i \in 1..N : Reply(i).raises}

\* records whose generation call returns nothing but whitespace
BlankRecords == {i \in 1..N : ~Reply(i).raises /\ Strip(Reply(i).content) = <<>>}

\* the frame a full run hands from generate_changelog to create_document
FullFrame ==
    LET extracted == Extract(tracker)
    IN  WithNotes(extracted,
                  [i \in 1..N |-> gerar_changelog(extracted.rows[i], Reply(i))])

\* Narrative Generation got a record set and is over
GenerationOver == InTrace("generate") /\ df.held /\ pc # "apply"

\* Narrative Generation ran to its end in this process
GenerationDone == InTrace("revisao")

\* Document Assembly saved a document in this process; df is what it received
DocumentSaved == InTrace("docx")

----------------------------------------------------------------------------
(* C1: Narrative Generation never aborts the batch: whatever the record set  *)
(* and whichever calls raise, every record is processed, each failing       *)
(* record gets the note "", and the stage ends by writing all records, in   *)
(* order, to the post-generation dataset.  (Stated as claimed; the run on   *)
(* an empty result list refutes it.)                                        *)
C1_BatchNeverAborts ==
    GenerationOver =>
        /\ err # "ValueError"
        /\ GenerationDone
        /\ Len(requests) = N
        /\ revisao.exists
        /\ Len(revisao.rows) = N
        /\ \A i \in 1..N :
              /\ revisao.rows[i].key = tracker[i].key
              /\ i \in FailedRecords => revisao.rows[i][NoteColumn] = ""

----------------------------------------------------------------------------
(* C4: in a full run the stage events occur in the order extract, snapshot  *)
(* written, generate, post-generation dataset written, document, document  *)
(* saved; after a failure no stage step is possible; a checkpoint written   *)
(* in the run keeps what was written.                                       *)
FullOrder == <<"extract", "snapshot", "generate", "revisao", "document", "docx">>

C4_StagesInOrder ==
    mode = "full" =>
        /\ IsPrefix(trace, FullOrder)
        /\ pc = "failed" => ~ENABLED StageStep
        /\ InTrace("snapshot") =>
              /\ snapshot.exists
              /\ Len(snapshot.rows) = N
              /\ \A i \in 1..N : snapshot.rows[i].key = tracker[i].key
        /\ InTrace("revisao") =>
              /\ revisao.exists
              /\ Len(revisao.rows) = N
              /\ \A i \in 1..N : revisao.rows[i].key = tracker[i].key

\* a full run that failed in Document Assembly, both checkpoints written
C4_Witness ==
    /\ mode = "full"
    /\ pc = "failed"
    /\ trace = <<"extract", "snapshot", "generate", "revisao", "document">>
    /\ N > 0

----------------------------------------------------------------------------
(* C5: when the tracker rejects the query, the process ends with that error, *)
(* no snapshot is written and both checkpoint files are as they were when   *)
(* the process started.                                                     *)
C5_RejectedQueryLeavesFiles ==
    err = "JIRAError" =>
        /\ pc = "failed"
        /\ trace = <<"extract">>
        /\ snapshot = pre.snapshot
        /\ revisao = pre.revisao

\* the query is rejected while both checkpoint files hold earlier content
C5_Witness ==
    /\ err = "JIRAError"
    /\ pre.snapshot.exists /\ Len(pre.snapshot.rows) > 0
    /\ pre.revisao.exists

----------------------------------------------------------------------------
(* C6: generate-only without a readable snapshot ends with the missing-      *)
(* precursor error, sends no request and leaves the post-generation         *)
(* dataset alone; document-only without a readable post-generation dataset *)
(* ends with that error and saves no document.                              *)
C6_MissingPrecursor ==
    /\ (mode = "generate" /\ pc # "start" /\ ~Readable(pre.snapshot)) =>
          /\ pc = "failed"
          /\ err = "FileNotFoundError"
          /\ requests = <<>>
          /\ revisao = pre.revisao
    /\ (mode = "document" /\ pc # "start" /\ ~Readable(pre.revisao)) =>
          /\ pc = "failed"
          /\ err = "FileNotFoundError"
          /\ docx = pre.docx

\* generate-only has run on a snapshot that exists and cannot be parsed
C6_Witness ==
    /\ mode = "generate"
    /\ pc = "failed"
    /\ snapshot.exists
    /\ ~Readable(snapshot)

----------------------------------------------------------------------------
(* C7: when Document Assembly runs, type and module of every record are      *)
(* non-null, and the module of a ticket without component is "N/A".         *)
(* (Stated as claimed; a record set reloaded from a checkpoint refutes it.) *)
C7_ModuleNeverNull ==
    (InTrace("document") /\ df.held) =>
        \A i \in 1..Len(df.rows) :
            /\ ~IsNull(df.rows[i].tipo)
            /\ ~IsNull(df.rows[i].modulo)
            /\ tracker[i].components = <<>> => df.rows[i].modulo = "N/A"

----------------------------------------------------------------------------
(* C8 *)

\* records of the enriched dataset whose note is not empty
NotedRecords == {i \in 1..Len(df.rows) : df.rows[i][NoteColumn] # ""}

\* every record whose call raised is in the enriched dataset, in memory and
\* in the file, with the note ""
FailedRecordsKept ==
    /\ Len(df.rows) = N
    /\ Len(revisao.rows) = N
    /\ \A i \in FailedRecords :
          /\ df.rows[i].key = tracker[i].key
          /\ df.rows[i][NoteColumn] = ""
          /\ revisao.rows[i].key = tracker[i].key
          /\ revisao.rows[i][NoteColumn] = ""

(* C8, as claimed: after Narrative Generation every record whose call       *)
(* raised is kept with the note "", and the number of records with a        *)
(* non-empty note is the number of records minus the number whose call      *)
(* raised.                                                                  *)
C8_CountAsClaimed ==
    GenerationDone =>
        /\ FailedRecordsKept
        /\ Cardinality(NotedRecords) = N - Cardinality(FailedRecords)

(* C8, amended: after Narrative Generation every record whose call raised   *)
(* is kept with the note "", and the number of records with a non-empty     *)
(* note is the number of records, minus the number whose call raised,       *)
(* minus the number whose call returned nothing but whitespace.             *)
C8_CountAmended ==
    GenerationDone =>
        /\ FailedRecordsKept
        /\ Cardinality(NotedRecords) =
              N - Cardinality(FailedRecords) - Cardinality(BlankRecords)

\* generation is over, one call raised and another returned a sentence
C8_Witness ==
    /\ GenerationDone
    /\ FailedRecords # {}
    /\ NotedRecords # {}

----------------------------------------------------------------------------
(* C9: every note Narrative Generation stores is empty or a single          *)
(* paragraph, whatever the service returns.  (Stated as claimed; a reply    *)
(* with a blank line in it refutes it.)                                     *)

\* a blank line separates two pieces of text
MultiParagraph(t) ==
    \E i, j \in 1..Len(t) :
        /\ i < j
        /\ t[i] = "\n" /\ t[j] = "\n"
        /\ \A k \in i..j : t[k] \in Whitespace
        /\ \E k \in 1..(i - 1) : t[k] \notin Whitespace
        /\ \E k \in (j + 1)..Len(t) : t[k] \notin Whitespace

SingleParagraphNotes == {Join(t) : t \in {u \in Texts(MaxLen) : ~MultiParagraph(u)}}

C9_SingleParagraph ==
    /\ \A k \in 1..Len(notes) : notes[k] \in SingleParagraphNotes
    /\ GenerationDone =>
          \A i \in 1..Len(revisao.rows) :
              revisao.rows[i][NoteColumn] \in SingleParagraphNotes

----------------------------------------------------------------------------
(* C10: the stages run one at a time through the checkpoint files end with  *)
(* the document a full run produces on the same tracker results and         *)
(* service replies, and a record set read back from a checkpoint is the     *)
(* record set that was written.  (Stated as claimed; a ticket without       *)
(* component, an empty note or an absent description refutes it.)           *)
\* the same records, an absent value counting as absent whichever null holds it
Absent(v) == IF IsNull(v) THEN NONE ELSE v

SameRecords(f, g) ==
    /\ Len(f.rows) = Len(g.rows)
    /\ \A i \in 1..Len(f.rows) :
          /\ DOMAIN f.rows[i] = DOMAIN g.rows[i]
          /\ \A c \in DOMAIN f.rows[i] : Absent(f.rows[i][c]) = Absent(g.rows[i][c])

C10_StagedEqualsFull ==
    /\ (mode = "generate" /\ pc = "apply") => SameRecords(df, Extract(tracker))
    /\ (mode = "document" /\ DocumentSaved /\ revisaoBy = "generate") =>
          /\ SameRecords(df, FullFrame)
          /\ docx.body = DocBody(FullFrame)

----------------------------------------------------------------------------
(* Reading a saved document *)

Body == docx.body

IsStyle(k, style) == Body[k].style = style

\* the heading of the given style that paragraph k stands under, "" when none
HeadingAbove(k, style) ==
    LET above == {h \in 1..k : IsStyle(h, style)}
    IN  IF above = {} THEN ""
        ELSE Body[CHOOSE h \in above : \A g \in above : g <= h].runs[1].text

\* positions of the level-1, level-2 and bullet paragraphs
TipoHeadings == {k \in 1..Len(Body) : IsStyle(k, "Heading 1")}
ModuloHeadings == {k \in 1..Len(Body) : IsStyle(k, "Heading 2")}
BulletLines == {k \in 1..Len(Body) : IsStyle(k, "List Bullet")}

\* the (type, module) section a level-2 heading or a bullet belongs to
SectionOf(k) == <<HeadingAbove(k, "Heading 1"), HeadingAbove(k, "Heading 2")>>

\* the bullets whose emphasized run is the key of record i
BulletsOf(i) ==
    {k \in BulletLines :
        /\ Body[k].runs[2].italic
        /\ Body[k].runs[2].text = "(" \o df.rows[i].key \o ")"}

\* first record carrying the value in the column
FirstSeen(c, v) ==
    CHOOSE i \in 1..Len(df.rows) :
        /\ df.rows[i][c] = v
        /\ \A j \in 1..(i - 1) : df.rows[j][c] # v

\* first record of the type carrying the module
FirstSeenInTipo(t, m) ==
    CHOOSE i \in 1..Len(df.rows) :
        /\ df.rows[i].tipo = t /\ df.rows[i].modulo = m
        /\ \A j \in 1..(i - 1) : ~(df.rows[j].tipo = t /\ df.rows[j].modulo = m)

\* the (type, module) pairs of the records, and those free of nulls
Pairs == {<<df.rows[i].tipo, df.rows[i].modulo>> : i \in 1..Len(df.rows)}
NonNullPairs == {p \in Pairs : ~IsNull(p[1]) /\ ~IsNull(p[2])}

\* no two level-2 headings stand for the same (type, module)
OneHeadingPerSection ==
    \A h, g \in ModuloHeadings : SectionOf(h) = SectionOf(g) => h = g

\* the level-1 headings are the types of the records, in first-seen order
TiposInFirstSeenOrder ==
    /\ {Body[k].runs[1].text : k \in TipoHeadings}
          = {Fmt(df.rows[i].tipo) : i \in 1..Len(df.rows)}
    /\ \A h, g \in TipoHeadings : Body[h].runs[1].text = Body[g].runs[1].text => h = g
    /\ \A i, j \in 1..Len(df.rows) : \A h, g \in TipoHeadings :
          (/\ Body[h].runs[1].text = Fmt(df.rows[i].tipo)
           /\ Body[g].runs[1].text = Fmt(df.rows[j].tipo)
           /\ FirstSeen("tipo", df.rows[i].tipo) < FirstSeen("tipo", df.rows[j].tipo))
          => h < g

----------------------------------------------------------------------------
(* C2, as claimed: the document has exactly one level-2 heading per         *)
(* (type, module) pair of the records and none else; the type headings are *)
(* in first-seen order, and under each type the module headings are in the *)
(* first-seen order of module among the records of that type.  (A null is  *)
(* no module value: pairs are taken over the records that have both.)      *)
C2_HeadingsAsClaimed ==
    DocumentSaved =>
        /\ {SectionOf(h) : h \in ModuloHeadings} = NonNullPairs
        /\ OneHeadingPerSection
        /\ TiposInFirstSeenOrder
        /\ \A h, g \in ModuloHeadings : \A p, q \in NonNullPairs :
              (/\ SectionOf(h) = p /\ SectionOf(g) = q
               /\ p[1] = q[1]
               /\ FirstSeenInTipo(p[1], p[2]) < FirstSeenInTipo(q[1], q[2]))
              => h < g

(* C2, amended: the document has exactly one level-2 heading per            *)
(* (type, module) pair of the records in which neither is null and none    *)
(* else; the type headings are in first-seen order, and under each type    *)
(* the module headings are in the first-seen order of module in the whole  *)
(* record set.                                                              *)
C2_HeadingsAmended ==
    DocumentSaved =>
        /\ {SectionOf(h) : h \in ModuloHeadings} = NonNullPairs
        /\ OneHeadingPerSection
        /\ TiposInFirstSeenOrder
        /\ \A h, g \in ModuloHeadings : \A p, q \in NonNullPairs :
              (/\ SectionOf(h) = p /\ SectionOf(g) = q
               /\ p[1] = q[1]
               /\ FirstSeen("modulo", p[2]) < FirstSeen("modulo", q[2]))
              => h < g

\* a document is saved for records in which a type meets its modules in
\* another order than the record set does
C2_Witness ==
    /\ DocumentSaved
    /\ \E p, q \in NonNullPairs :
          /\ p[1] = q[1]
          /\ FirstSeenInTipo(p[1], p[2]) < FirstSeenInTipo(q[1], q[2])
          /\ FirstSeen("modulo", q[2]) < FirstSeen("modulo", p[2])

----------------------------------------------------------------------------
(* C3: every record Document Assembly receives, in memory or from the       *)
(* post-generation dataset, is on exactly one bullet line, under the        *)
(* headings of its type and module, in record order within the section,    *)
(* with its key as the emphasized run.  (Stated as claimed; a record whose *)
(* module was reloaded as null refutes it.)                                 *)
C3_EveryRecordOneBullet ==
    DocumentSaved =>
        /\ Cardinality(BulletLines) = Len(df.rows)
        /\ \A i \in 1..Len(df.rows) :
              /\ Cardinality(BulletsOf(i)) = 1
              /\ \A k \in BulletsOf(i) :
                    SectionOf(k) = <<Fmt(df.rows[i].tipo), Fmt(df.rows[i].modulo)>>
        /\ \A i, j \in 1..Len(df.rows) : \A k \in BulletsOf(i) : \A l \in BulletsOf(j) :
              (i < j /\ SectionOf(k) = SectionOf(l)) => k < l

============================================================================
